---- MODULE Spec2Model ----
(***************************************************************************)
(* State-machine model of the cart / order / product / user services of    *)
(* the e-commerce backend.  The relational tables are functions from ids   *)
(* to rows (a row with live = FALSE is an absent row); every service       *)
(* method is one action that reads and writes the tables as its code does. *)
(* Money is counted in cents.                                              *)
(***************************************************************************)
EXTENDS Integers, Sequences, FiniteSets, TLC

\* ---------------------------------------------------------------- bounds
\* rows the cart_items and orders tables can hold, largest stock a seller sets
MaxCartItems == 2
MaxOrders == 1
MaxStock == 2

\* the accounts, the catalog and the carts of the shop
UserIds == {1, 2}
ProductIds == {1, 2}
CartIds == {1, 2}
Quantities == {1, 2}
Requests == {1, 2}

\* the order_items lists of the create_order requests
Line(p, q) == [product_id |-> p, quantity |-> q]
OrderLines == {<<>>, <<Line(1, 1)>>, <<Line(1, 1), Line(1, 1)>>,
               <<Line(1, 2), Line(2, 1)>>}
LongestOrder == CHOOSE n \in 0..4 : /\ \E l \in OrderLines : Len(l) = n
                                    /\ \A l \in OrderLines : Len(l) <= n

CartItemIds == 1..MaxCartItems
\* one order row more than the sequential runs fill, so that each of the two
\* requests in flight can write its order
OrderIds == 1..(MaxOrders + 1)
OrderItemIds == 1..((MaxOrders + 1) * LongestOrder)
PaymentIds == {1, 2}
RefundIds == {1, 2}
TokenIds == {1, 2, 3}
MethodIds == {1, 2, 3}

\* ------------------------------------------------------ program constants
\* create_order: tax_amount = subtotal * Decimal('0.10')
TaxDivisor == 10
\* create_order: shipping_cost = Decimal('10.00'), in cents
ShippingCost == 1000

\* UserRole
UserRole == {"normal_user", "seller", "admin"}
\* OrderStatus, and the lifecycle order of its non-terminal members
OrderStatus == {"pending", "confirmed", "processing", "shipped", "delivered",
                "cancelled", "refunded"}
\* orders.models.PaymentStatus, the payment_status of an order
PaymentStatus == {"pending", "paid", "failed", "refunded"}
\* payment.models.PaymentStatus, the status of a payment or refund
PaymentModelStatus == {"pending", "processing", "completed", "failed", "cancelled",
                       "refunded", "partially_refunded"}
\* the columns of the Product table: the attributes a Product row has
ProductFields == {"id", "title", "description", "price", "discount_percentage",
                  "rating", "stock", "brand", "thumbnail", "images", "seller_id",
                  "category_id", "created_at", "updated_at"}

Titles == {"A", "B"}
Prices == {100, 300}
Emails == {"a@x", "b@x"}
Usernames == {"ann", "bob"}
\* an Optional request field over S: <<>> when the body leaves it out
Opt(S) == {<<>>} \cup {<<x>> : x \in S}

NoUser == [live |-> FALSE, email |-> "", username |-> "", role |-> "normal_user",
           is_verified |-> FALSE]
NoProduct == [live |-> FALSE, title |-> "", price |-> 0, stock |-> 0, seller_id |-> 0]
NoCart == [live |-> FALSE, user_id |-> 0, total_price |-> 0]
NoCartItem == [live |-> FALSE, cart_id |-> 0, product_id |-> 0, quantity |-> 0,
               subtotal_price |-> 0]
NoOrder == [live |-> FALSE, user_id |-> 0, status |-> "pending",
            payment_status |-> "pending", subtotal |-> 0, tax_amount |-> 0,
            shipping_cost |-> 0, total_amount |-> 0]
NoOrderItem == [live |-> FALSE, order_id |-> 0, product_id |-> 0, product_name |-> "",
                product_price |-> 0, quantity |-> 0, subtotal |-> 0]
NoPayment == [live |-> FALSE, order_id |-> 0, user_id |-> 0, amount |-> 0,
              status |-> "pending", provider |-> ""]
NoRefund == [live |-> FALSE, payment_id |-> 0, user_id |-> 0, amount |-> 0,
             status |-> "pending"]
NoToken == [live |-> FALSE, user_id |-> 0, is_used |-> FALSE, expired |-> FALSE]
NoMethod == [live |-> FALSE, user_id |-> 0, is_default |-> FALSE, is_active |-> FALSE]
NoRequest == [pc |-> "idle", caller |-> 0, lines |-> <<>>, snap |-> <<>>,
              res |-> "", id |-> 0]
NoCall == [op |-> "none", res |-> "", id |-> 0, pre |-> <<>>, afterCreate |-> FALSE,
           detail |-> "", restocked |-> {}]

VARIABLES
    users,       \* table users
    products,    \* table products
    carts,       \* table carts
    cartItems,   \* table cart_items
    orders,      \* table orders
    orderItems,  \* table order_items
    payments,    \* table payment
    refunds,     \* table paymentrefund
    tokens,      \* table email_verification_tokens
    methods,     \* table payment_methods
    reqs,        \* requests in flight: the rows each session has read
    last         \* the last completed call and its outcome

vars == <<users, products, carts, cartItems, orders, orderItems, payments, refunds,
          tokens, methods, reqs, last>>

\* ---------------------------------------------------------------- helpers
Min(S) == CHOOSE x \in S : \A y \in S : x <= y

\* uuid4 primary keys: a new row gets an id no row of its table has
FreeCartIds == {c \in CartIds : ~carts[c].live}
FreeCartItemIds == {i \in CartItemIds : ~cartItems[i].live}
FreeOrderIds == {o \in OrderIds : ~orders[o].live}
FreeOrderItemIds == {i \in OrderItemIds : ~orderItems[i].live}
FreePaymentIds == {i \in PaymentIds : ~payments[i].live}
FreeRefundIds == {i \in RefundIds : ~refunds[i].live}
FreeTokenIds == {k \in TokenIds : ~tokens[k].live}
FreeMethodIds == {m \in MethodIds : ~methods[m].live}

CartItemsOf(c) == {i \in CartItemIds : cartItems[i].live /\ cartItems[i].cart_id = c}
OrderItemsOf(o) == {i \in OrderItemIds : orderItems[i].live /\ orderItems[i].order_id = o}
CartsOfUser(u) == {c \in CartIds : carts[c].live /\ carts[c].user_id = u}

RECURSIVE SumSubtotals(_)
SumSubtotals(S) ==
    IF S = {} THEN 0
    ELSE LET i == CHOOSE x \in S : TRUE
         IN cartItems[i].subtotal_price + SumSubtotals(S \ {i})

\* the record of a completed call: the operation, the outcome and the row it
\* was about (detail: see CallDetail).  A create_order call also records the stock it found
\* (pre); a cancel_order call that directly follows the successful create_order
\* of the same order keeps that record and is marked afterCreate.  The record
\* carries along the orders whose quantities a cancel_order call has added
\* back to the stock (restocked).
Call(op, res, id) ==
    LET follows == op = "cancel_order" /\ last.op = "create_order"
                   /\ last.res = "ok" /\ last.id = id
    IN [op |-> op, res |-> res, id |-> id,
        pre |-> IF op = "create_order" THEN [p \in ProductIds |-> products[p].stock]
                ELSE IF follows THEN last.pre ELSE <<>>,
        afterCreate |-> follows, detail |-> "",
        restocked |-> IF op = "cancel_order" /\ res = "ok"
                      THEN last.restocked \cup {id} ELSE last.restocked]

\* a call whose response or log line says more than the outcome: the field an
\* error message names, or the side effect that failed and was only logged
CallDetail(op, res, id, detail) == [Call(op, res, id) EXCEPT !.detail = detail]

\* ------------------------------------------------------------------- Init
\* two accounts with verified emails: a customer and a seller
InitUsers ==
    [u \in UserIds |->
        IF u = 1 THEN [live |-> TRUE, email |-> "a@x", username |-> "ann",
                       role |-> "normal_user", is_verified |-> TRUE]
        ELSE [live |-> TRUE, email |-> "b@x", username |-> "bob", role |-> "seller",
              is_verified |-> TRUE]]

\* the carts made at signup
SignupCarts == [c \in CartIds |-> [live |-> TRUE, user_id |-> c, total_price |-> 0]]

\* the seller's two products, with s1 and s2 units in stock
Catalog(s1, s2) ==
    [p \in ProductIds |->
        IF p = 1 THEN [live |-> TRUE, title |-> "A", price |-> 100, stock |-> s1,
                       seller_id |-> 2]
        ELSE [live |-> TRUE, title |-> "B", price |-> 300, stock |-> s2, seller_id |-> 2]]

NoRows ==
    /\ cartItems = [i \in CartItemIds |-> NoCartItem]
    /\ orders = [o \in OrderIds |-> NoOrder]
    /\ orderItems = [i \in OrderItemIds |-> NoOrderItem]
    /\ payments = [i \in PaymentIds |-> NoPayment]
    /\ refunds = [i \in RefundIds |-> NoRefund]
    /\ tokens = [k \in TokenIds |-> NoToken]
    /\ methods = [m \in MethodIds |-> NoMethod]
    /\ reqs = [r \in Requests |-> NoRequest]
    /\ last = NoCall

\* a shop before its first order
InitShop ==
    /\ users = InitUsers
    /\ carts = SignupCarts
    /\ \E s1 \in 1..MaxStock : products = Catalog(s1, MaxStock)
    /\ NoRows

\* the shop with one unit of product 1 left
InitCart ==
    /\ users = InitUsers
    /\ carts = SignupCarts
    /\ products = Catalog(1, MaxStock)
    /\ NoRows

\* the database after init_db: no rows
InitEmpty ==
    /\ users = [u \in UserIds |-> NoUser]
    /\ carts = [c \in CartIds |-> NoCart]
    /\ products = [p \in ProductIds |-> NoProduct]
    /\ NoRows

\* ------------------------------------------------------------ CartService
\* a quantity check that lets every integer through
CartItemQuantityAny(q) == TRUE

\* Field(ge=1) on the quantity of CartItemCreate and CartItemUpdate: the
\* request is answered 422 before the handler runs
CartItemQuantityOk(q) == q >= 1

AddItemToCart(u, c, p, q) ==
    /\ users[u].live
    /\ UNCHANGED <<users, products, orders, orderItems, payments, refunds, methods, tokens, reqs>>
    /\ IF ~CartItemQuantityOk(q)
       THEN /\ last' = Call("add_item_to_cart", "validation_error", c)
            /\ UNCHANGED <<carts, cartItems>>
       ELSE IF ~carts[c].live \/ ~products[p].live
       THEN /\ last' = Call("add_item_to_cart", "not_found", c)
            /\ UNCHANGED <<carts, cartItems>>
       ELSE /\ FreeCartItemIds # {}
            /\ LET i == Min(FreeCartItemIds)
                   subtotal == products[p].price * q
               IN /\ cartItems' = [cartItems EXCEPT ![i] =
                                     [live |-> TRUE, cart_id |-> c, product_id |-> p,
                                      quantity |-> q, subtotal_price |-> subtotal]]
                  /\ carts' = [carts EXCEPT ![c].total_price = @ + subtotal]
                  /\ last' = Call("add_item_to_cart", "ok", i)

\* body.quantity = <<>> is a body without quantity: price * None raises
\* TypeError before anything is committed
UpdateCartItem(u, c, i, body) ==
    /\ users[u].live
    /\ UNCHANGED <<users, products, orders, orderItems, payments, refunds, methods, tokens, reqs>>
    /\ IF body.quantity # <<>> /\ ~CartItemQuantityOk(body.quantity[1])
       THEN /\ last' = Call("update_cart_item", "validation_error", i)
            /\ UNCHANGED <<carts, cartItems>>
       ELSE IF ~(cartItems[i].live /\ cartItems[i].cart_id = c)
       THEN /\ last' = Call("update_cart_item", "not_found", i)
            /\ UNCHANGED <<carts, cartItems>>
       ELSE IF ~products[cartItems[i].product_id].live \/ ~carts[c].live
       THEN /\ last' = Call("update_cart_item", "not_found", i)
            /\ UNCHANGED <<carts, cartItems>>
       ELSE IF body.quantity = <<>>
       THEN /\ last' = Call("update_cart_item", "internal_error", i)
            /\ UNCHANGED <<carts, cartItems>>
       ELSE LET q == body.quantity[1]
                old_subtotal == cartItems[i].subtotal_price
                new_subtotal == products[cartItems[i].product_id].price * q
            IN /\ cartItems' = [cartItems EXCEPT ![i].quantity = q,
                                                 ![i].subtotal_price = new_subtotal]
               /\ carts' = [carts EXCEPT ![c].total_price =
                                            @ - old_subtotal + new_subtotal]
               /\ last' = Call("update_cart_item", "ok", i)

RemoveCartItem(u, c, i) ==
    /\ users[u].live
    /\ UNCHANGED <<users, products, orders, orderItems, payments, refunds, methods, tokens, reqs>>
    /\ IF ~(cartItems[i].live /\ cartItems[i].cart_id = c) \/ ~carts[c].live
       THEN /\ last' = Call("remove_cart_item", "not_found", i)
            /\ UNCHANGED <<carts, cartItems>>
       ELSE /\ carts' = [carts EXCEPT ![c].total_price =
                                         @ - cartItems[i].subtotal_price]
            /\ cartItems' = [cartItems EXCEPT ![i] = NoCartItem]
            /\ last' = Call("remove_cart_item", "ok", i)

\* --------------------------------------------------- CartCheckoutService
\* the validation loop of checkout_cart over the cart items S, in query order
RECURSIVE CheckoutValidate(_)
CheckoutValidate(S) ==
    IF S = {} THEN "ok"
    ELSE LET i == Min(S)
             product == products[cartItems[i].product_id]
         IN IF ~product.live THEN "validation_error"
            ELSE IF "is_active" \notin ProductFields THEN "internal_error"
            ELSE IF "stock_quantity" \notin ProductFields THEN "internal_error"
            ELSE IF product.stock < cartItems[i].quantity THEN "validation_error"
            ELSE CheckoutValidate(S \ {i})

RECURSIVE CheckoutTotal(_)
CheckoutTotal(S) ==
    IF S = {} THEN 0
    ELSE LET i == Min(S)
         IN products[cartItems[i].product_id].price * cartItems[i].quantity
            + CheckoutTotal(S \ {i})

\* the order items written for the cart items S, on the free ids F
RECURSIVE CheckoutItems(_, _, _, _)
CheckoutItems(tbl, S, F, o) ==
    IF S = {} THEN tbl
    ELSE LET i == Min(S)
             product == products[cartItems[i].product_id]
         IN CheckoutItems(
              [tbl EXCEPT ![Min(F)] =
                 [live |-> TRUE, order_id |-> o, product_id |-> cartItems[i].product_id,
                  product_name |-> product.title, product_price |-> product.price,
                  quantity |-> cartItems[i].quantity,
                  subtotal |-> product.price * cartItems[i].quantity]],
              S \ {i}, F \ {Min(F)}, o)

\* _clear_cart
ClearCart(c) ==
    /\ cartItems' = [i \in CartItemIds |->
                       IF cartItems[i].live /\ cartItems[i].cart_id = c
                       THEN NoCartItem ELSE cartItems[i]]
    /\ carts' = [carts EXCEPT ![c].total_price = 0]

\* a cart emptied although no order was committed
CheckoutRollbackClears(c) == ClearCart(c)

\* the except branch of checkout_cart before the order commit: rollback, with
\* nothing of the cart flushed or deleted so far
CheckoutRollback(c) == UNCHANGED <<carts, cartItems>>

\* pay: what the payment step meets ("ok", provider "not_configured",
\* provider answer "declined"); tax = 1 when the request's tax_rate is 0.10,
\* 0 when it is 0; ship is the request's shipping_cost; clear: what _clear_cart
\* meets ("ok", or "failed" when its deletes or its commit raise, which it
\* logs and swallows)
CheckoutCart(u, c, pay, tax, ship, clear) ==
    /\ users[u].live
    /\ UNCHANGED <<users, products, refunds, methods, tokens, reqs>>
    /\ IF ~carts[c].live
       THEN /\ last' = Call("checkout_cart", "not_found", c)
            /\ UNCHANGED <<carts, cartItems, orders, orderItems, payments>>
       ELSE IF CartItemsOf(c) = {}
       THEN /\ last' = Call("checkout_cart", "validation_error", c)
            /\ CheckoutRollback(c)
            /\ UNCHANGED <<orders, orderItems, payments>>
       ELSE IF CheckoutValidate(CartItemsOf(c)) # "ok"
       THEN /\ last' = Call("checkout_cart", CheckoutValidate(CartItemsOf(c)), c)
            /\ CheckoutRollback(c)
            /\ UNCHANGED <<orders, orderItems, payments>>
       ELSE /\ Cardinality(OrderIds \ FreeOrderIds) < MaxOrders
            /\ Cardinality(FreeOrderItemIds) >= Cardinality(CartItemsOf(c))
            /\ FreePaymentIds # {}
            /\ LET o == Min(FreeOrderIds)
                   total_amount == CheckoutTotal(CartItemsOf(c))
                   tax_amount == (total_amount * tax) \div TaxDivisor
                   final_total == total_amount + tax_amount + ship
               IN /\ orders' = [orders EXCEPT ![o] =
                        [live |-> TRUE, user_id |-> u, status |-> "pending",
                         payment_status |-> "pending", subtotal |-> total_amount,
                         tax_amount |-> tax_amount, shipping_cost |-> ship,
                         total_amount |-> final_total]]
                  /\ orderItems' = CheckoutItems(orderItems, CartItemsOf(c),
                                                 FreeOrderItemIds, o)
                  /\ IF pay = "ok"
                     THEN /\ payments' = [payments EXCEPT ![Min(FreePaymentIds)] =
                                [live |-> TRUE, order_id |-> o, user_id |-> u,
                                 amount |-> final_total, status |-> "pending",
                                 provider |-> "manual"]]
                          /\ IF clear = "ok" THEN ClearCart(c)
                             ELSE UNCHANGED <<carts, cartItems>>
                          /\ last' = Call("checkout_cart", "ok", c)
                     ELSE /\ UNCHANGED <<payments, carts, cartItems>>
                          /\ last' = Call("checkout_cart", "validation_error", c)

\* --------------------------------------------------------- ProductService
\* upd: the fields a ProductUpdate body sets (exclude_unset)
UpdateProduct(u, p, upd) ==
    /\ users[u].live
    /\ UNCHANGED <<users, carts, cartItems, orders, orderItems, payments, refunds, methods, tokens, reqs>>
    /\ IF ~products[p].live
       THEN /\ last' = Call("update_product", "not_found", p)
            /\ UNCHANGED products
       ELSE IF users[u].role # "admin" /\ products[p].seller_id # u
       THEN /\ last' = Call("update_product", "forbidden", p)
            /\ UNCHANGED products
       ELSE /\ products' = [products EXCEPT ![p] =
                [@ EXCEPT !.title = IF upd.title = <<>> THEN @ ELSE upd.title[1],
                          !.price = IF upd.price = <<>> THEN @ ELSE upd.price[1],
                          !.stock = IF upd.stock = <<>> THEN @ ELSE upd.stock[1]]]
            /\ last' = Call("update_product", "ok", p)

\* deletes the product's cart items and order items, then the product;
\* no cart row is touched
DeleteProduct(u, p) ==
    /\ users[u].live
    /\ UNCHANGED <<users, carts, orders, payments, refunds, methods, tokens, reqs>>
    /\ IF ~products[p].live
       THEN /\ last' = Call("delete_product", "not_found", p)
            /\ UNCHANGED <<products, cartItems, orderItems>>
       ELSE IF users[u].role # "admin" /\ products[p].seller_id # u
       THEN /\ last' = Call("delete_product", "forbidden", p)
            /\ UNCHANGED <<products, cartItems, orderItems>>
       ELSE /\ cartItems' = [i \in CartItemIds |->
                               IF cartItems[i].live /\ cartItems[i].product_id = p
                               THEN NoCartItem ELSE cartItems[i]]
            /\ orderItems' = [i \in OrderItemIds |->
                                IF orderItems[i].live /\ orderItems[i].product_id = p
                                THEN NoOrderItem ELSE orderItems[i]]
            /\ products' = [products EXCEPT ![p] = NoProduct]
            /\ last' = Call("delete_product", "ok", p)

\* ----------------------------------------------------------- OrderService
\* the validation loop of create_order over the lines k.. of the request,
\* against the product rows prods the session reads
RECURSIVE ValidateLines(_, _, _)
ValidateLines(prods, lines, k) ==
    IF k > Len(lines) THEN "ok"
    ELSE LET product == prods[lines[k].product_id]
         IN IF ~product.live THEN "not_found"
            ELSE IF product.stock < lines[k].quantity THEN "validation_error"
            ELSE ValidateLines(prods, lines, k + 1)

RECURSIVE OrderSubtotal(_, _, _)
OrderSubtotal(prods, lines, k) ==
    IF k > Len(lines) THEN 0
    ELSE prods[lines[k].product_id].price * lines[k].quantity
         + OrderSubtotal(prods, lines, k + 1)

\* the units of product p the lines k.. ask for
RECURSIVE LinesQty(_, _, _)
LinesQty(lines, p, k) ==
    IF k > Len(lines) THEN 0
    ELSE (IF lines[k].product_id = p THEN lines[k].quantity ELSE 0)
         + LinesQty(lines, p, k + 1)

\* a write loop that leaves the stock alone
StockAfterOrderUntouched(prods, lines) == products

\* product.stock -= quantity, once per line, on the row object the session
\* loaded during validation
StockAfterOrder(prods, lines) ==
    [p \in ProductIds |->
        IF LinesQty(lines, p, 1) > 0
        THEN [products[p] EXCEPT !.stock = prods[p].stock - LinesQty(lines, p, 1)]
        ELSE products[p]]

\* the order items written for the lines k.., on the free ids F
RECURSIVE OrderItemsFor(_, _, _, _, _, _)
OrderItemsFor(tbl, prods, lines, k, F, o) ==
    IF k > Len(lines) THEN tbl
    ELSE LET product == prods[lines[k].product_id]
         IN OrderItemsFor(
              [tbl EXCEPT ![Min(F)] =
                 [live |-> TRUE, order_id |-> o, product_id |-> lines[k].product_id,
                  product_name |-> product.title, product_price |-> product.price,
                  quantity |-> lines[k].quantity,
                  subtotal |-> product.price * lines[k].quantity]],
              prods, lines, k + 1, F \ {Min(F)}, o)

\* an order header whose total leaves the tax out
NewOrderWithoutTax(u, prods, lines) ==
    LET subtotal == OrderSubtotal(prods, lines, 1)
        tax_amount == subtotal \div TaxDivisor
    IN [live |-> TRUE, user_id |-> u, status |-> "pending",
        payment_status |-> "pending", subtotal |-> subtotal,
        tax_amount |-> tax_amount, shipping_cost |-> ShippingCost,
        total_amount |-> subtotal + ShippingCost]

\* the order header create_order writes
NewOrder(u, prods, lines) ==
    LET subtotal == OrderSubtotal(prods, lines, 1)
        tax_amount == subtotal \div TaxDivisor
    IN [live |-> TRUE, user_id |-> u, status |-> "pending",
        payment_status |-> "pending", subtotal |-> subtotal,
        tax_amount |-> tax_amount, shipping_cost |-> ShippingCost,
        total_amount |-> subtotal + tax_amount + ShippingCost]

\* the writes of create_order, committed together
WriteOrder(u, prods, lines, o) ==
    /\ orders' = [orders EXCEPT ![o] = NewOrder(u, prods, lines)]
    /\ orderItems' = OrderItemsFor(orderItems, prods, lines, 1, FreeOrderItemIds, o)
    /\ products' = StockAfterOrder(prods, lines)

\* what the log holds after the notification block of a handler: nothing, or
\* the error the block caught when a send it attempted has failed
NotificationLog(attempted, mail) ==
    IF attempted /\ mail = "failed" THEN "notification_failed" ELSE ""

\* mail: what the notification block after the commit meets ("sent", or
\* "failed" when a send raises)
CreateOrderNotify(u, lines, mail) ==
    /\ users[u].live
    /\ UNCHANGED <<users, carts, cartItems, payments, refunds, methods, tokens, reqs>>
    /\ IF ValidateLines(products, lines, 1) # "ok"
       THEN /\ last' = Call("create_order", ValidateLines(products, lines, 1), 0)
            /\ UNCHANGED <<products, orders, orderItems>>
       ELSE /\ Cardinality(OrderIds \ FreeOrderIds) < MaxOrders
            /\ WriteOrder(u, products, lines, Min(FreeOrderIds))
            /\ last' = CallDetail("create_order", "ok", Min(FreeOrderIds),
                                  NotificationLog(TRUE, mail))

\* create_order with its mails delivered
CreateOrder(u, lines) == CreateOrderNotify(u, lines, "sent")

\* the permission check of update_order and cancel_order: a normal user
\* passes it on the orders that user placed, a seller or admin on every order
MayChangeOrder(u, o) == ~(users[u].role = "normal_user" /\ orders[o].user_id # u)

\* upd: the fields an OrderUpdate body sets (exclude_unset)
\* mail: what the notification block after the commit meets; it sends only
\* when the status changed or the payment status changed to PAID
UpdateOrderNotify(u, o, upd, mail) ==
    /\ users[u].live
    /\ UNCHANGED <<users, products, carts, cartItems, orderItems, payments, refunds, methods, tokens, reqs>>
    /\ IF ~orders[o].live
       THEN /\ last' = Call("update_order", "not_found", o)
            /\ UNCHANGED orders
       ELSE IF ~MayChangeOrder(u, o)
       THEN /\ last' = Call("update_order", "forbidden", o)
            /\ UNCHANGED orders
       ELSE /\ orders' = [orders EXCEPT ![o] =
                [@ EXCEPT !.status = IF upd.status = <<>> THEN @ ELSE upd.status[1],
                          !.payment_status = IF upd.payment_status = <<>> THEN @
                                             ELSE upd.payment_status[1]]]
            /\ last' = CallDetail("update_order", "ok", o,
                  NotificationLog(\/ orders'[o].status # orders[o].status
                                  \/ /\ orders'[o].payment_status # orders[o].payment_status
                                     /\ orders'[o].payment_status = "paid",
                                  mail))

\* update_order with its mails delivered
UpdateOrder(u, o, upd) == UpdateOrderNotify(u, o, upd, "sent")

\* the dependency of the seller/admin routes
RequireSellerOrAdmin(u) == users[u].role \in {"seller", "admin"}

\* route PUT /orders/{order_id}/status
UpdateOrderStatus(u, o, st) ==
    /\ RequireSellerOrAdmin(u)
    /\ UpdateOrder(u, o, [status |-> <<st>>, payment_status |-> <<>>])

\* ItemsQty as it would be if cancel_order put one unit back per order item
ItemsQtyOnePerItem(S, p) ==
    Cardinality({i \in S : orderItems[i].product_id = p})

\* the units of product p in the order items S
RECURSIVE ItemsQty(_, _)
ItemsQty(S, p) ==
    IF S = {} THEN 0
    ELSE LET i == CHOOSE x \in S : TRUE
         IN (IF orderItems[i].product_id = p THEN orderItems[i].quantity ELSE 0)
            + ItemsQty(S \ {i}, p)

\* the statuses cancel_order refuses; the restock is explored while no stock
\* counter passes MaxStock
NotCancellable == {"shipped", "delivered", "cancelled"}

\* CancelOrder as it would be if the status check left out DELIVERED
CancelOrderDelivered(u, o) ==
    /\ users[u].live
    /\ UNCHANGED <<users, carts, cartItems, orderItems, payments, refunds, methods, tokens, reqs>>
    /\ IF ~orders[o].live
       THEN /\ last' = Call("cancel_order", "not_found", o)
            /\ UNCHANGED <<orders, products>>
       ELSE IF ~MayChangeOrder(u, o)
       THEN /\ last' = Call("cancel_order", "forbidden", o)
            /\ UNCHANGED <<orders, products>>
       ELSE IF orders[o].status \in NotCancellable \ {"delivered"}
       THEN /\ last' = Call("cancel_order", "validation_error", o)
            /\ UNCHANGED <<orders, products>>
       ELSE /\ \A p \in ProductIds :
                  products[p].stock + ItemsQty(OrderItemsOf(o), p) <= MaxStock
            /\ orders' = [orders EXCEPT ![o].status = "cancelled"]
            /\ products' = [p \in ProductIds |->
                              IF products[p].live
                              THEN [products[p] EXCEPT !.stock =
                                      @ + ItemsQty(OrderItemsOf(o), p)]
                              ELSE products[p]]
            /\ last' = Call("cancel_order", "ok", o)

CancelOrder(u, o) ==
    /\ users[u].live
    /\ UNCHANGED <<users, carts, cartItems, orderItems, payments, refunds, methods, tokens, reqs>>
    /\ IF ~orders[o].live
       THEN /\ last' = Call("cancel_order", "not_found", o)
            /\ UNCHANGED <<orders, products>>
       ELSE IF ~MayChangeOrder(u, o)
       THEN /\ last' = Call("cancel_order", "forbidden", o)
            /\ UNCHANGED <<orders, products>>
       ELSE IF orders[o].status \in NotCancellable
       THEN /\ last' = Call("cancel_order", "validation_error", o)
            /\ UNCHANGED <<orders, products>>
       ELSE /\ \A p \in ProductIds :
                  products[p].stock + ItemsQty(OrderItemsOf(o), p) <= MaxStock
            /\ orders' = [orders EXCEPT ![o].status = "cancelled"]
            /\ products' = [p \in ProductIds |->
                              IF products[p].live
                              THEN [products[p] EXCEPT !.stock =
                                      @ + ItemsQty(OrderItemsOf(o), p)]
                              ELSE products[p]]
            /\ last' = Call("cancel_order", "ok", o)

\* --------------------------------------------------------- PaymentService
\* an amount check that lets every amount through
AmountMismatchNever(o, amount) == FALSE

\* payment_data.amount != order.total_amount
AmountMismatch(o, amount) == amount # orders[o].total_amount

\* prov: what the provider call meets: "ok", provider "not_configured",
\* provider answer "declined"
CreatePaymentIntent(u, o, amount, prov) ==
    /\ users[u].live
    /\ UNCHANGED <<users, products, carts, cartItems, orders, orderItems, refunds, methods, tokens, reqs>>
    /\ IF ~orders[o].live
       THEN /\ last' = Call("create_payment_intent", "not_found", o)
            /\ UNCHANGED payments
       ELSE IF orders[o].user_id # u /\ users[u].role \notin {"admin", "seller"}
       THEN /\ last' = Call("create_payment_intent", "forbidden", o)
            /\ UNCHANGED payments
       ELSE IF AmountMismatch(o, amount)
       THEN /\ last' = CallDetail("create_payment_intent", "validation_error", o, "amount")
            /\ UNCHANGED payments
       ELSE IF prov # "ok"
       THEN /\ last' = CallDetail("create_payment_intent", "validation_error", o, "provider")
            /\ UNCHANGED payments
       ELSE /\ FreePaymentIds # {}
            /\ payments' = [payments EXCEPT ![Min(FreePaymentIds)] =
                              [live |-> TRUE, order_id |-> o, user_id |-> u,
                               amount |-> amount, status |-> "pending",
                               provider |-> "manual"]]
            /\ last' = Call("create_payment_intent", "ok", Min(FreePaymentIds))

\* i: the payment whose payment_intent_id the body names; prov: the provider's
\* answer, "ok" or "declined".  The status the payment has is not looked at.
ConfirmPayment(u, i, prov) ==
    /\ users[u].live
    /\ UNCHANGED <<users, products, carts, cartItems, orderItems, refunds, methods, tokens, reqs>>
    /\ IF ~payments[i].live
       THEN /\ last' = Call("confirm_payment", "not_found", i)
            /\ UNCHANGED <<payments, orders>>
       ELSE IF payments[i].user_id # u /\ users[u].role \notin {"admin", "seller"}
       THEN /\ last' = Call("confirm_payment", "forbidden", i)
            /\ UNCHANGED <<payments, orders>>
       ELSE /\ payments' = [payments EXCEPT ![i].status =
                              IF prov = "ok" THEN "completed" ELSE "failed"]
            /\ orders' = [o \in OrderIds |->
                            IF orders[o].live /\ o = payments[i].order_id
                            THEN [orders[o] EXCEPT !.payment_status =
                                    IF prov = "ok" THEN "paid" ELSE "failed"]
                            ELSE orders[o]]
            /\ last' = Call("confirm_payment", "ok", i)

\* refund_amount = refund_data.amount or payment.amount
RefundAmount(i, amount) == IF amount = <<>> THEN payments[i].amount ELSE amount[1]

\* ExceedsPayment as it would be without the comparison
ExceedsPaymentNever(i, refund_amount) == FALSE

\* refund_amount > payment.amount
ExceedsPayment(i, refund_amount) == refund_amount > payments[i].amount

\* RefundResponse declares id and payment_id as str; the PaymentRefund row
\* holds them as uuid.UUID, which the response model does not accept
RefundResponseIdType == "str"
RefundRowIdType == "uuid"

\* amount: the Optional amount of the body; prov: the provider's answer
CreateRefund(u, i, amount, prov) ==
    /\ users[u].live
    /\ UNCHANGED <<users, products, carts, cartItems, orderItems, tokens, methods, reqs>>
    /\ IF ~payments[i].live
       THEN /\ last' = Call("create_refund", "not_found", i)
            /\ UNCHANGED <<payments, refunds, orders>>
       ELSE IF payments[i].user_id # u /\ users[u].role \notin {"admin"}
       THEN /\ last' = Call("create_refund", "forbidden", i)
            /\ UNCHANGED <<payments, refunds, orders>>
       ELSE IF payments[i].status # "completed"
       THEN /\ last' = Call("create_refund", "validation_error", i)
            /\ UNCHANGED <<payments, refunds, orders>>
       ELSE IF ExceedsPayment(i, RefundAmount(i, amount))
       THEN /\ last' = Call("create_refund", "validation_error", i)
            /\ UNCHANGED <<payments, refunds, orders>>
       ELSE /\ FreeRefundIds # {}
            /\ refunds' = [refunds EXCEPT ![Min(FreeRefundIds)] =
                             [live |-> TRUE, payment_id |-> i, user_id |-> u,
                              amount |-> RefundAmount(i, amount),
                              status |-> IF prov = "ok" THEN "completed" ELSE "failed"]]
            /\ IF prov = "ok"
               THEN /\ payments' = [payments EXCEPT ![i].status =
                                      IF RefundAmount(i, amount) = payments[i].amount
                                      THEN "refunded" ELSE "partially_refunded"]
                    /\ orders' = [o \in OrderIds |->
                                    IF orders[o].live /\ o = payments[i].order_id
                                    THEN [orders[o] EXCEPT !.payment_status = "refunded"]
                                    ELSE orders[o]]
               ELSE UNCHANGED <<payments, orders>>
            /\ last' = Call("create_refund",
                            IF RefundResponseIdType = RefundRowIdType THEN "ok"
                            ELSE "internal_error", i)

\* the event types process_webhook acts on: one that holds
\* 'payment_intent.succeeded' or 'payment.completed', one that holds
\* 'payment_intent.payment_failed' or 'payment.failed', and any other
WebhookEvents == {"succeeded", "failed", "other"}

\* i: the payment whose provider_payment_id the payload names; the route has
\* no caller.  Only the payment row is written; the order is not loaded.
ProcessWebhook(i, ev) ==
    /\ UNCHANGED <<users, products, carts, cartItems, orders, orderItems, refunds, methods, tokens, reqs>>
    /\ IF payments[i].live /\ ev # "other"
       THEN payments' = [payments EXCEPT ![i].status =
                           IF ev = "succeeded" THEN "completed" ELSE "failed"]
       ELSE UNCHANGED payments
    /\ last' = Call("process_webhook", "ok", i)

\* PaymentMethodResponse declares id as str; the PaymentMethodInfo row holds a
\* uuid.UUID, which the response model does not accept: from_orm raises after
\* the commit
MethodResponseIdType == "str"
MethodRowIdType == "uuid"
MethodResponse == IF MethodResponseIdType = MethodRowIdType THEN "ok" ELSE "internal_error"

\* a rule that leaves the defaults the user already has
UnsetDefaultsNever(u, keep) == methods

\* the methods of user u with is_default set, other than keep, lose the flag
UnsetDefaults(u, keep) ==
    [m \in MethodIds |->
        IF /\ methods[m].live /\ methods[m].user_id = u
           /\ methods[m].is_default /\ m # keep
        THEN [methods[m] EXCEPT !.is_default = FALSE]
        ELSE methods[m]]

\* is_default: the flag of the PaymentMethodCreate body (default False);
\* prov: what the provider call meets
CreatePaymentMethod(u, is_default, prov) ==
    /\ users[u].live
    /\ UNCHANGED <<users, products, carts, cartItems, orders, orderItems, payments, refunds,
                   tokens, reqs>>
    /\ IF prov # "ok"
       THEN /\ last' = Call("create_payment_method", "validation_error", 0)
            /\ UNCHANGED methods
       ELSE /\ FreeMethodIds # {}
            /\ methods' = [(IF is_default THEN UnsetDefaults(u, 0) ELSE methods) EXCEPT
                              ![Min(FreeMethodIds)] =
                                 [live |-> TRUE, user_id |-> u, is_default |-> is_default,
                                  is_active |-> TRUE]]
            /\ last' = Call("create_payment_method", MethodResponse, Min(FreeMethodIds))

\* upd: the PaymentMethodUpdate body; a field left out is None
UpdatePaymentMethod(u, m, upd) ==
    /\ users[u].live
    /\ UNCHANGED <<users, products, carts, cartItems, orders, orderItems, payments, refunds,
                   tokens, reqs>>
    /\ IF ~methods[m].live
       THEN /\ last' = Call("update_payment_method", "not_found", m)
            /\ UNCHANGED methods
       ELSE IF methods[m].user_id # u
       THEN /\ last' = Call("update_payment_method", "forbidden", m)
            /\ UNCHANGED methods
       ELSE /\ methods' =
                 [(IF upd.is_default = <<TRUE>> THEN UnsetDefaults(u, m) ELSE methods)
                  EXCEPT ![m] =
                     [@ EXCEPT !.is_default = IF upd.is_default = <<>> THEN @
                                              ELSE upd.is_default[1],
                               !.is_active = IF upd.is_active = <<>> THEN @
                                             ELSE upd.is_active[1]]]
            /\ last' = Call("update_payment_method", MethodResponse, m)

DeletePaymentMethod(u, m) ==
    /\ users[u].live
    /\ UNCHANGED <<users, products, carts, cartItems, orders, orderItems, payments, refunds,
                   tokens, reqs>>
    /\ IF ~methods[m].live
       THEN /\ last' = Call("delete_payment_method", "not_found", m)
            /\ UNCHANGED methods
       ELSE IF methods[m].user_id # u
       THEN /\ last' = Call("delete_payment_method", "forbidden", m)
            /\ UNCHANGED methods
       ELSE /\ methods' = [methods EXCEPT ![m] = NoMethod]
            /\ last' = Call("delete_payment_method", "ok", m)

\* ------------------------------------------- create_order requests in flight
\* Each request runs in its own session.  Its validation loop loads the product
\* rows; the write loop decrements the stock of the row objects loaded then
\* (the session returns them unrefreshed) and the commit writes the result.
\* No row is locked and no version is checked in between.
BeginCreateOrder(r, u, lines) ==
    /\ users[u].live
    /\ reqs[r].pc = "idle"
    /\ UNCHANGED <<users, products, carts, cartItems, orders, orderItems, payments, refunds, methods, tokens, last>>
    /\ IF ValidateLines(products, lines, 1) # "ok"
       THEN reqs' = [reqs EXCEPT ![r] =
                       [pc |-> "done", caller |-> u, lines |-> lines, snap |-> <<>>,
                        res |-> ValidateLines(products, lines, 1), id |-> 0]]
       ELSE reqs' = [reqs EXCEPT ![r] =
                       [pc |-> "validated", caller |-> u, lines |-> lines,
                        snap |-> products, res |-> "", id |-> 0]]

\* the write loop selects each line's product again: the row is gone when the
\* product was deleted after the validation, and product.stock raises
WriteLoopRaises(lines) == \E k \in 1..Len(lines) : ~products[lines[k].product_id].live

\* a failed write loop that leaves the flushed order header behind
WriteLoopFailureKeepsHeader(r) ==
    /\ FreeOrderIds # {}
    /\ orders' = [orders EXCEPT ![Min(FreeOrderIds)] =
                     NewOrder(reqs[r].caller, reqs[r].snap, reqs[r].lines)]
    /\ UNCHANGED <<orderItems, products>>

\* the except branch of create_order: the rollback undoes the flushed header,
\* the order items and the stock changes of the session
WriteLoopFailure(r) == UNCHANGED <<orders, orderItems, products>>

CommitCreateOrder(r) ==
    /\ reqs[r].pc = "validated"
    /\ UNCHANGED <<users, carts, cartItems, payments, refunds, methods, tokens, last>>
    /\ IF WriteLoopRaises(reqs[r].lines)
       THEN /\ WriteLoopFailure(r)
            /\ reqs' = [reqs EXCEPT ![r].pc = "done", ![r].res = "internal_error"]
       ELSE /\ FreeOrderIds # {}
            /\ WriteOrder(reqs[r].caller, reqs[r].snap, reqs[r].lines, Min(FreeOrderIds))
            /\ reqs' = [reqs EXCEPT ![r].pc = "done", ![r].res = "ok",
                                    ![r].id = Min(FreeOrderIds)]

\* ------------------------------------------------------------ UserService
FreeUserIds == {u \in UserIds : ~users[u].live}

\* select(User).where(User.email == email) finds a row
EmailRegistered(email) == \E u \in UserIds : users[u].live /\ users[u].email = email
UsernameRegistered(username) ==
    \E u \in UserIds : users[u].live /\ users[u].username = username

\* EmailVerificationToken.create_token: a fresh token for user u
NewToken(u) == [live |-> TRUE, user_id |-> u, is_used |-> FALSE, expired |-> FALSE]

\* the user row is committed first, unverified, then the cart of the new user,
\* then the verification token
CreateUser(email, username, role) ==
    /\ UNCHANGED <<products, cartItems, orders, orderItems, payments, refunds, methods, reqs>>
    /\ IF EmailRegistered(email)
       THEN /\ last' = CallDetail("create_user", "conflict", 0, "email")
            /\ UNCHANGED <<users, carts, tokens>>
       ELSE IF UsernameRegistered(username)
       THEN /\ last' = CallDetail("create_user", "conflict", 0, "username")
            /\ UNCHANGED <<users, carts, tokens>>
       ELSE /\ FreeUserIds # {}
            /\ FreeCartIds # {}
            /\ FreeTokenIds # {}
            /\ LET u == Min(FreeUserIds)
               IN /\ users' = [users EXCEPT ![u] =
                                 [live |-> TRUE, email |-> email, username |-> username,
                                  role |-> role, is_verified |-> FALSE]]
                  /\ carts' = [carts EXCEPT ![Min(FreeCartIds)] =
                                 [live |-> TRUE, user_id |-> u, total_price |-> 0]]
                  /\ tokens' = [tokens EXCEPT ![Min(FreeTokenIds)] = NewToken(u)]
                  /\ last' = Call("create_user", "ok", u)

\* an update_user that never finds the new email taken
EmailConflictNever(t, upd) == FALSE

\* the email check of update_user: the body sets an email other than the
\* user's own, and a row with that email exists
EmailConflict(t, upd) ==
    /\ upd.email # <<>>
    /\ upd.email[1] # users[t].email
    /\ EmailRegistered(upd.email[1])

UsernameConflict(t, upd) ==
    /\ upd.username # <<>>
    /\ upd.username[1] # users[t].username
    /\ UsernameRegistered(upd.username[1])

\* u: the caller, t: the user to update, upd: the fields the UserUpdate body
\* sets (exclude_unset)
UpdateUser(u, t, upd) ==
    /\ users[u].live
    /\ UNCHANGED <<products, carts, cartItems, orders, orderItems, payments, refunds, methods, tokens, reqs>>
    /\ IF ~users[t].live
       THEN /\ last' = Call("update_user", "not_found", t)
            /\ UNCHANGED users
       ELSE IF users[u].role # "admin" /\ u # t
       THEN /\ last' = Call("update_user", "forbidden", t)
            /\ UNCHANGED users
       ELSE IF EmailConflict(t, upd)
       THEN /\ last' = CallDetail("update_user", "conflict", t, "email")
            /\ UNCHANGED users
       ELSE IF UsernameConflict(t, upd)
       THEN /\ last' = CallDetail("update_user", "conflict", t, "username")
            /\ UNCHANGED users
       ELSE /\ users' = [users EXCEPT ![t] =
                [@ EXCEPT !.email = IF upd.email = <<>> THEN @ ELSE upd.email[1],
                          !.username = IF upd.username = <<>> THEN @
                                       ELSE upd.username[1],
                          !.role = IF upd.role = <<>> THEN @ ELSE upd.role[1],
                          !.is_verified = IF upd.is_verified = <<>> THEN @
                                          ELSE upd.is_verified[1]]]
            /\ last' = Call("update_user", "ok", t)

\* a resend that leaves the earlier tokens as they are
InvalidateOldTokensNone(u) == tokens

\* the tokens of user u that are not used, marked as used
InvalidateOldTokens(u) ==
    [k \in TokenIds |->
        IF tokens[k].live /\ tokens[k].user_id = u /\ ~tokens[k].is_used
        THEN [tokens[k] EXCEPT !.is_used = TRUE]
        ELSE tokens[k]]

\* k: the token of the request (a value no row holds is an id that is not live)
VerifyEmail(k) ==
    /\ UNCHANGED <<products, carts, cartItems, orders, orderItems, payments, refunds, methods, reqs>>
    /\ IF ~tokens[k].live
       THEN /\ last' = CallDetail("verify_email", "bad_request", k, "invalid")
            /\ UNCHANGED <<users, tokens>>
       ELSE IF tokens[k].is_used
       THEN /\ last' = CallDetail("verify_email", "bad_request", k, "used")
            /\ UNCHANGED <<users, tokens>>
       ELSE IF tokens[k].expired
       THEN /\ last' = CallDetail("verify_email", "bad_request", k, "expired")
            /\ UNCHANGED <<users, tokens>>
       ELSE IF ~users[tokens[k].user_id].live
       THEN /\ last' = Call("verify_email", "not_found", k)
            /\ UNCHANGED <<users, tokens>>
       ELSE IF users[tokens[k].user_id].is_verified
       THEN /\ last' = CallDetail("verify_email", "bad_request", k, "verified")
            /\ UNCHANGED <<users, tokens>>
       ELSE /\ users' = [users EXCEPT ![tokens[k].user_id].is_verified = TRUE]
            /\ tokens' = [tokens EXCEPT ![k].is_used = TRUE]
            /\ last' = Call("verify_email", "ok", k)

\* mail: what send_verification_email returns after the commit; a mail that
\* is not sent is answered 500 with the new token already written
ResendVerificationEmail(email, mail) ==
    /\ UNCHANGED <<users, products, carts, cartItems, orders, orderItems, payments, refunds, methods,
                   reqs>>
    /\ IF ~EmailRegistered(email)
       THEN /\ last' = Call("resend_verification_email", "not_found", 0)
            /\ UNCHANGED tokens
       ELSE LET u == CHOOSE x \in UserIds : users[x].live /\ users[x].email = email
            IN IF users[u].is_verified
               THEN /\ last' = Call("resend_verification_email", "bad_request", u)
                    /\ UNCHANGED tokens
               ELSE /\ FreeTokenIds # {}
                    /\ tokens' = [InvalidateOldTokens(u) EXCEPT
                                     ![Min(FreeTokenIds)] = NewToken(u)]
                    /\ last' = Call("resend_verification_email",
                                    IF mail = "sent" THEN "ok" ELSE "internal_error", u)

\* is_expired(): the clock passes the expires_at of token k
TokenExpires(k) ==
    /\ tokens[k].live
    /\ ~tokens[k].expired
    /\ tokens' = [tokens EXCEPT ![k].expired = TRUE]
    /\ UNCHANGED <<users, products, carts, cartItems, orders, orderItems, payments, refunds, methods,
                   reqs, last>>

\* get_my_cart: the caller's cart, made on the spot when the caller has none
MyCart(u, op) ==
    /\ users[u].live
    /\ UNCHANGED <<users, products, cartItems, orders, orderItems, payments, refunds, methods, tokens, reqs>>
    /\ IF CartsOfUser(u) # {}
       THEN /\ last' = Call(op, "ok", Min(CartsOfUser(u)))
            /\ UNCHANGED carts
       ELSE /\ FreeCartIds # {}
            /\ carts' = [carts EXCEPT ![Min(FreeCartIds)] =
                           [live |-> TRUE, user_id |-> u, total_price |-> 0]]
            /\ last' = Call(op, "ok", Min(FreeCartIds))

GetMyCart(u) == MyCart(u, "get_my_cart")

\* create_cart returns get_my_cart
CreateCart(u) == MyCart(u, "create_cart")

\* deletes the cart row, whoever owns it; its items go with it (cascade)
DeleteCart(u, c) ==
    /\ users[u].live
    /\ UNCHANGED <<users, products, orders, orderItems, payments, refunds, methods, tokens, reqs>>
    /\ IF ~carts[c].live
       THEN /\ last' = Call("delete_cart", "not_found", c)
            /\ UNCHANGED <<carts, cartItems>>
       ELSE /\ carts' = [carts EXCEPT ![c] = NoCart]
            /\ cartItems' = [i \in CartItemIds |->
                               IF cartItems[i].live /\ cartItems[i].cart_id = c
                               THEN NoCartItem ELSE cartItems[i]]
            /\ last' = Call("delete_cart", "ok", c)

\* --------------------------------------------------------- specifications
ProductUpdates == {[title |-> <<"B">>, price |-> <<300>>, stock |-> <<>>],
                   [title |-> <<>>, price |-> <<>>, stock |-> <<0>>],
                   [title |-> <<>>, price |-> <<>>, stock |-> <<MaxStock>>]}
PriceUpdates == {[title |-> <<>>, price |-> <<300>>, stock |-> <<>>]}
StatusUpdates == [status : Opt(OrderStatus), payment_status : {<<>>}]

\* carts: the cart endpoints, checkout and the catalog changes they meet
NextCart ==
    \/ \E u \in UserIds, c \in CartIds, p \in ProductIds, q \in Quantities :
          AddItemToCart(u, c, p, q)
    \/ \E u \in UserIds, c \in CartIds, i \in CartItemIds,
          body \in [quantity : Opt(Quantities)] : UpdateCartItem(u, c, i, body)
    \/ \E u \in UserIds, c \in CartIds, i \in CartItemIds : RemoveCartItem(u, c, i)
    \/ \E u \in UserIds, c \in CartIds, pay \in {"ok", "not_configured", "declined"} :
          CheckoutCart(u, c, pay, 1, 0, "ok")
    \/ \E u \in UserIds, p \in ProductIds, upd \in PriceUpdates : UpdateProduct(u, p, upd)
    \/ \E u \in UserIds, p \in ProductIds : DeleteProduct(u, p)

SpecCart == InitCart /\ [][NextCart]_vars

\* the quantities a request body may carry, valid or not
BodyQuantities == {0} \cup Quantities

\* checkout: the customer fills the carts, the seller reprices product 1, and
\* either of them checks a cart out
NextCheckout ==
    \/ \E c \in CartIds, p \in ProductIds, q \in BodyQuantities :
          AddItemToCart(1, c, p, q)
    \/ \E c \in CartIds, i \in CartItemIds, body \in [quantity : Opt(BodyQuantities)] :
          UpdateCartItem(1, c, i, body)
    \/ \E u \in UserIds, c \in CartIds, pay \in {"ok", "not_configured", "declined"},
          clear \in {"ok", "failed"} : CheckoutCart(u, c, pay, 1, 0, clear)
    \/ \E upd \in PriceUpdates : UpdateProduct(2, 1, upd)

SpecCheckout == InitCart /\ [][NextCheckout]_vars

\* side effects that fail after the commit: the mails of create_order and
\* update_order, and the cart clearing of checkout_cart
EffectLines == {<<Line(2, 1)>>, <<Line(1, 1), Line(2, 2)>>}
EffectUpdates == {[status |-> <<"confirmed">>, payment_status |-> <<>>],
                  [status |-> <<>>, payment_status |-> <<"paid">>]}

NextEffects ==
    \/ \E c \in CartIds, p \in ProductIds : AddItemToCart(1, c, p, 1)
    \/ \E u \in UserIds, c \in CartIds, clear \in {"ok", "failed"} :
          CheckoutCart(u, c, "ok", 1, 0, clear)
    \/ \E u \in UserIds, lines \in EffectLines, mail \in {"sent", "failed"} :
          CreateOrderNotify(u, lines, mail)
    \/ \E u \in UserIds, o \in OrderIds, upd \in EffectUpdates,
          mail \in {"sent", "failed"} : UpdateOrderNotify(u, o, upd, mail)

SpecEffects == InitCart /\ [][NextEffects]_vars

\* orders: placing, changing and cancelling orders, and the catalog changes
Next ==
    \/ \E u \in UserIds, lines \in OrderLines : CreateOrder(u, lines)
    \/ \E u \in UserIds, o \in OrderIds, upd \in StatusUpdates : UpdateOrder(u, o, upd)
    \/ \E u \in UserIds, o \in OrderIds, st \in OrderStatus : UpdateOrderStatus(u, o, st)
    \/ \E u \in UserIds, o \in OrderIds : CancelOrder(u, o)

Spec == InitShop /\ [][Next]_vars

\* orders and the catalog changes they meet
NextCatalog ==
    \/ Next
    \/ \E u \in UserIds, p \in ProductIds, upd \in ProductUpdates : UpdateProduct(u, p, upd)
    \/ \E u \in UserIds, p \in ProductIds : DeleteProduct(u, p)

SpecCatalog == InitShop /\ [][NextCatalog]_vars

\* two requests in flight against the last unit of product 1, one unit of it
\* in each cart
InitConc ==
    /\ users = InitUsers
    /\ products = Catalog(1, MaxStock)
    /\ carts = [c \in CartIds |-> [live |-> TRUE, user_id |-> c, total_price |-> 100]]
    /\ cartItems = [i \in CartItemIds |->
                      IF i \in CartIds
                      THEN [live |-> TRUE, cart_id |-> i, product_id |-> 1,
                            quantity |-> 1, subtotal_price |-> 100]
                      ELSE NoCartItem]
    /\ orders = [o \in OrderIds |-> NoOrder]
    /\ orderItems = [i \in OrderItemIds |-> NoOrderItem]
    /\ payments = [i \in PaymentIds |-> NoPayment]
    /\ refunds = [i \in RefundIds |-> NoRefund]
    /\ tokens = [k \in TokenIds |-> NoToken]
    /\ methods = [m \in MethodIds |-> NoMethod]
    /\ reqs = [r \in Requests |-> NoRequest]
    /\ last = NoCall

NextConc ==
    \/ \E r \in Requests, u \in UserIds, lines \in OrderLines : BeginCreateOrder(r, u, lines)
    \/ \E r \in Requests : CommitCreateOrder(r)
    \/ \E u \in UserIds, c \in CartIds : CheckoutCart(u, c, "ok", 1, 0, "ok")
    \/ \E p \in ProductIds : DeleteProduct(2, p)

SpecConc == InitConc /\ [][NextConc]_vars

\* the ordering paths that move stock: orders placed directly or from the
\* cart, and cancelled
NextStock ==
    \/ \E u \in UserIds, lines \in OrderLines : CreateOrder(u, lines)
    \/ \E u \in UserIds, c \in CartIds : CheckoutCart(u, c, "ok", 1, 0, "ok")
    \/ \E u \in UserIds, o \in OrderIds : CancelOrder(u, o)

\* the shop of InitConc, with any number of units of product 1 up to MaxStock
InitStock ==
    /\ users = InitUsers
    /\ \E s1 \in 0..MaxStock : products = Catalog(s1, MaxStock)
    /\ carts = [c \in CartIds |-> [live |-> TRUE, user_id |-> c, total_price |-> 100]]
    /\ cartItems = [i \in CartItemIds |->
                      IF i \in CartIds
                      THEN [live |-> TRUE, cart_id |-> i, product_id |-> 1,
                            quantity |-> 1, subtotal_price |-> 100]
                      ELSE NoCartItem]
    /\ orders = [o \in OrderIds |-> NoOrder]
    /\ orderItems = [i \in OrderItemIds |-> NoOrderItem]
    /\ payments = [i \in PaymentIds |-> NoPayment]
    /\ refunds = [i \in RefundIds |-> NoRefund]
    /\ tokens = [k \in TokenIds |-> NoToken]
    /\ methods = [m \in MethodIds |-> NoMethod]
    /\ reqs = [r \in Requests |-> NoRequest]
    /\ last = NoCall

SpecStock == InitStock /\ [][NextStock]_vars

\* payments: orders, their payment intents, confirmations and refunds, in a
\* shop with product 1 sold out and one unit of product 2 left, which the
\* customer has in the cart
InitPay ==
    /\ users = InitUsers
    /\ products = Catalog(0, 1)
    /\ carts = [c \in CartIds |->
                  [live |-> TRUE, user_id |-> c, total_price |-> IF c = 1 THEN 300 ELSE 0]]
    /\ cartItems = [i \in CartItemIds |->
                      IF i = 1
                      THEN [live |-> TRUE, cart_id |-> 1, product_id |-> 2,
                            quantity |-> 1, subtotal_price |-> 300]
                      ELSE NoCartItem]
    /\ orders = [o \in OrderIds |-> NoOrder]
    /\ orderItems = [i \in OrderItemIds |-> NoOrderItem]
    /\ payments = [i \in PaymentIds |-> NoPayment]
    /\ refunds = [i \in RefundIds |-> NoRefund]
    /\ tokens = [k \in TokenIds |-> NoToken]
    /\ methods = [m \in MethodIds |-> NoMethod]
    /\ reqs = [r \in Requests |-> NoRequest]
    /\ last = NoCall

PayOrderLines == {<<Line(2, 1)>>}
\* the amount of a PaymentIntentCreate body: the order total, or off by d
IntentAmount(o, d) == orders[o].total_amount + d
\* the amount of a RefundCreate body: left out, or the payment amount off by d
RefundBodyAmount(i, d) == IF d = <<>> THEN <<>> ELSE <<payments[i].amount + d[1]>>

NextPay ==
    \/ \E u \in UserIds, lines \in PayOrderLines : CreateOrder(u, lines)
    \/ \E u \in UserIds, c \in CartIds : CheckoutCart(u, c, "ok", 1, 0, "ok")
    \/ \E u \in UserIds, o \in OrderIds, d \in {0, 1},
          prov \in {"ok", "not_configured", "declined"} :
          CreatePaymentIntent(u, o, IntentAmount(o, d), prov)
    \/ \E u \in UserIds, i \in PaymentIds, prov \in {"ok", "declined"} :
          ConfirmPayment(u, i, prov)
    \/ \E u \in UserIds, i \in PaymentIds, d \in Opt({-1, 1}),
          prov \in {"ok", "declined"} : CreateRefund(u, i, RefundBodyAmount(i, d), prov)

SpecPay == InitPay /\ [][NextPay]_vars

\* payments with the provider's webhook: one order, its payment intents, their
\* confirmations and refunds by the customer, and the webhook events
NextWebhook ==
    \/ \E lines \in PayOrderLines : CreateOrder(1, lines)
    \/ \E o \in OrderIds : CreatePaymentIntent(1, o, IntentAmount(o, 0), "ok")
    \/ \E i \in PaymentIds, prov \in {"ok", "declined"} : ConfirmPayment(1, i, prov)
    \/ \E i \in PaymentIds, d \in Opt({-1}), prov \in {"ok", "declined"} :
          CreateRefund(1, i, RefundBodyAmount(i, d), prov)
    \/ \E i \in PaymentIds, ev \in WebhookEvents : ProcessWebhook(i, ev)

SpecWebhook == InitPay /\ [][NextWebhook]_vars

\* amounts: one order, payment intents for it with the right amount and with
\* amounts off by one, and every later call on the payment and on the order
AmountUpdates == {[status |-> <<"confirmed">>, payment_status |-> <<>>],
                  [status |-> <<>>, payment_status |-> <<"paid">>]}

NextAmount ==
    \/ \E lines \in PayOrderLines : CreateOrder(1, lines)
    \/ \E u \in UserIds, o \in OrderIds, d \in {-1, 0, 1} :
          CreatePaymentIntent(u, o, IntentAmount(o, d), "ok")
    \/ \E i \in PaymentIds, prov \in {"ok", "declined"} : ConfirmPayment(1, i, prov)
    \/ \E i \in PaymentIds, d \in Opt({-1}) : CreateRefund(1, i, RefundBodyAmount(i, d), "ok")
    \/ \E i \in PaymentIds, ev \in {"succeeded", "failed"} : ProcessWebhook(i, ev)
    \/ \E o \in OrderIds, upd \in AmountUpdates : UpdateOrder(1, o, upd)

SpecAmount == InitPay /\ [][NextAmount]_vars

\* saved payment methods: each user saves, changes and deletes methods
MethodUpdates == [is_default : Opt(BOOLEAN), is_active : Opt(BOOLEAN)]

NextMethods ==
    \/ \E u \in UserIds, is_default \in BOOLEAN, prov \in {"ok", "declined"} :
          CreatePaymentMethod(u, is_default, prov)
    \/ \E u \in UserIds, m \in MethodIds, upd \in MethodUpdates :
          UpdatePaymentMethod(u, m, upd)
    \/ \E u \in UserIds, m \in MethodIds : DeletePaymentMethod(u, m)

SpecMethods == InitShop /\ [][NextMethods]_vars

\* the UserUpdate bodies: any of email and username set or left out
UserUpdates == [email : Opt(Emails), username : Opt(Usernames), role : Opt(UserRole),
                is_verified : {<<>>}]

\* accounts and their carts, from the empty database
NextUser ==
    \/ \E email \in Emails, username \in Usernames, role \in UserRole :
          CreateUser(email, username, role)
    \/ \E u \in UserIds, t \in UserIds, upd \in UserUpdates : UpdateUser(u, t, upd)
    \/ \E u \in UserIds : GetMyCart(u)
    \/ \E u \in UserIds : CreateCart(u)
    \/ \E u \in UserIds, c \in CartIds : DeleteCart(u, c)
    \/ \E u \in UserIds, c \in CartIds : CheckoutCart(u, c, "ok", 1, 0, "ok")

SpecUser == InitEmpty /\ [][NextUser]_vars

\* email verification: signups, the verification link, the resend request,
\* users who set their own is_verified, and tokens running out
VerifyUpdates == [email : {<<>>}, username : {<<>>}, role : {<<>>},
                  is_verified : {<<FALSE>>, <<TRUE>>}]

NextVerify ==
    \/ \E email \in Emails, username \in Usernames : CreateUser(email, username, "normal_user")
    \/ \E k \in TokenIds : VerifyEmail(k)
    \/ \E email \in Emails, mail \in {"sent", "failed"} : ResendVerificationEmail(email, mail)
    \/ \E u \in UserIds, upd \in VerifyUpdates : UpdateUser(u, u, upd)
    \/ \E k \in TokenIds : TokenExpires(k)

SpecVerify == InitEmpty /\ [][NextVerify]_vars

\* ------------------------------------------------------------------ claims
\* a cart item of cart c that asks for more units than its product has
ShortCartLine(c) ==
    \E i \in CartItemsOf(c) : /\ products[cartItems[i].product_id].live
                              /\ products[cartItems[i].product_id].stock
                                   < cartItems[i].quantity
\* a line of the request that asks for more units than its product has
ShortLine(lines) ==
    \E k \in 1..Len(lines) : /\ products[lines[k].product_id].live
                             /\ products[lines[k].product_id].stock < lines[k].quantity
\* the place of a status in the lifecycle pending .. delivered
Lifecycle == <<"pending", "confirmed", "processing", "shipped", "delivered">>
Rank(st) == CHOOSE k \in 1..Len(Lifecycle) : Lifecycle[k] = st
InLifecycle(st) == \E k \in 1..Len(Lifecycle) : Lifecycle[k] = st

\* C1: the total_price of every cart is the sum of the subtotal_price of the
\* cart items now in that cart.
C1_CartTotalIsSumOfSubtotals ==
    \A c \in CartIds :
        carts[c].live => carts[c].total_price = SumSubtotals(CartItemsOf(c))

\* C2: the stock of every product is at least 0.
C2_StockNeverNegative ==
    \A p \in ProductIds : products[p].live => products[p].stock >= 0

\* C3: of two requests in flight that each order one unit of the product with
\* one unit left, at most one creates an order.
C3_AtMostOneOrderForLastUnit ==
    ~(\A r \in Requests : /\ reqs[r].pc = "done"
                           /\ reqs[r].res = "ok"
                           /\ reqs[r].lines = <<Line(1, 1)>>)

\* C4: a checkout_cart or create_order call with a line that asks for more
\* units than the product has in stock fails with a validation error, and
\* writes no order, no order item and no stock change.
C4_ShortLineFailsValidation ==
    [][/\ \A u \in UserIds, c \in CartIds :
             (carts[c].live /\ ShortCartLine(c) /\ CheckoutCart(u, c, "ok", 1, 0, "ok"))
             => (/\ last'.res = "validation_error"
                 /\ UNCHANGED <<orders, orderItems, products>>)
       /\ \A u \in UserIds, lines \in OrderLines :
             (ShortLine(lines) /\ CreateOrder(u, lines))
             => (/\ last'.res = "validation_error"
                 /\ UNCHANGED <<orders, orderItems, products>>)]_vars

\* C5: a checkout_cart call on a non-empty cart whose items all name existing
\* products with enough stock, paid through a configured provider, succeeds:
\* it writes one PENDING order with one order item per cart item and one
\* PENDING payment for it, and leaves the cart empty with total_price 0.
C5_CheckoutSucceeds ==
    [][\A u \in UserIds, c \in CartIds :
          (/\ carts[c].live
           /\ CartItemsOf(c) # {}
           /\ \A i \in CartItemsOf(c) :
                 /\ products[cartItems[i].product_id].live
                 /\ products[cartItems[i].product_id].stock >= cartItems[i].quantity
           /\ CheckoutCart(u, c, "ok", 1, 0, "ok"))
          => (/\ last'.res = "ok"
              /\ \E o \in OrderIds :
                    /\ ~orders[o].live
                    /\ orders'[o].live
                    /\ orders'[o].status = "pending"
                    /\ \A o2 \in OrderIds \ {o} : orders'[o2] = orders[o2]
                    /\ Cardinality({i \in OrderItemIds :
                                       orderItems'[i].live /\ orderItems'[i].order_id = o})
                         = Cardinality(CartItemsOf(c))
                    /\ Cardinality({i \in PaymentIds :
                                       /\ payments'[i].live
                                       /\ payments'[i].order_id = o
                                       /\ payments'[i].status = "pending"}) = 1
              /\ \A i \in CartItemIds : ~(cartItems'[i].live /\ cartItems'[i].cart_id = c)
              /\ carts'[c].total_price = 0)]_vars

\* C6 as claimed: cancel_order on a SHIPPED or DELIVERED order is rejected
\* with a validation error, and the orders and the stock stay as they were.
C6_CancelShippedIsValidationError ==
    [][\A u \in UserIds, o \in OrderIds :
          (/\ orders[o].live
           /\ orders[o].status \in {"shipped", "delivered"}
           /\ CancelOrder(u, o))
          => (/\ last'.res = "validation_error"
              /\ UNCHANGED <<orders, orderItems, products>>)]_vars

\* C6 as amended: cancel_order on a SHIPPED or DELIVERED order is rejected,
\* with a validation error when the caller passes the permission check of
\* cancel_order and as forbidden when not, and the orders and the stock stay
\* as they were.
C6_CancelShippedIsRejected ==
    [][\A u \in UserIds, o \in OrderIds :
          (/\ orders[o].live
           /\ orders[o].status \in {"shipped", "delivered"}
           /\ CancelOrder(u, o))
          => (/\ last'.res = IF MayChangeOrder(u, o) THEN "validation_error"
                             ELSE "forbidden"
              /\ UNCHANGED <<orders, orderItems, products>>)]_vars

\* a cancel_order call was refused on a SHIPPED or DELIVERED order
C6_Witness ==
    /\ last.op = "cancel_order"
    /\ last.res = "validation_error"
    /\ orders[last.id].status \in {"shipped", "delivered"}

C8_StatusMonotonic ==
    [][\A o \in OrderIds :
          orders[o].live
          => \/ orders'[o].status = orders[o].status
             \/ /\ InLifecycle(orders[o].status)
                /\ InLifecycle(orders'[o].status)
                /\ Rank(orders'[o].status) >= Rank(orders[o].status)
             \/ /\ orders'[o].status = "cancelled"
                /\ last'.op = "cancel_order"]_vars

\* C9: an order item, once written, keeps its product_name, product_price,
\* quantity and subtotal and stays in its order.
C9_OrderItemsImmutable ==
    [][\A i \in OrderItemIds :
          orderItems[i].live => orderItems'[i] = orderItems[i]]_vars

\* C10: every user has exactly one cart.
C10_ExactlyOneCartPerUser ==
    \A u \in UserIds : users[u].live => Cardinality(CartsOfUser(u)) = 1

\* C11 as claimed: create_refund with a requested amount greater than the
\* payment's amount is rejected with a validation error; no refund is written
\* and the payments and orders stay as they were.
C11_OverRefundIsValidationError ==
    [][\A u \in UserIds, i \in PaymentIds, prov \in {"ok", "declined"} :
          (/\ payments[i].live
           /\ CreateRefund(u, i, <<payments[i].amount + 1>>, prov))
          => (/\ last'.res = "validation_error"
              /\ UNCHANGED <<refunds, payments, orders>>)]_vars

\* C11 as amended: create_refund with a requested amount greater than the
\* payment's amount is rejected, with a validation error when the caller owns
\* the payment or is an admin and as forbidden when not; no refund is written
\* and the payments and orders stay as they were.
C11_OverRefundIsRejected ==
    [][\A u \in UserIds, i \in PaymentIds, prov \in {"ok", "declined"} :
          (/\ payments[i].live
           /\ last'.op = "create_refund"
           /\ CreateRefund(u, i, <<payments[i].amount + 1>>, prov))
          => (/\ last'.res = IF payments[i].user_id = u \/ users[u].role = "admin"
                             THEN "validation_error" ELSE "forbidden"
              /\ UNCHANGED <<refunds, payments, orders>>)]_vars

\* a create_refund call was refused on a completed payment, which only the
\* amount check does
C11_Witness ==
    /\ last.op = "create_refund"
    /\ last.res = "validation_error"
    /\ payments[last.id].status = "completed"

\* C12: at most one active (PENDING) payment intent per order: after any
\* sequence of create_payment_intent, checkout_cart and confirm_payment calls no
\* order has two payment records that are both PENDING.
C12_AtMostOnePendingPerOrder ==
    \A i, j \in PaymentIds :
        (/\ payments[i].live /\ payments[j].live
         /\ payments[i].order_id = payments[j].order_id
         /\ payments[i].status = "pending" /\ payments[j].status = "pending")
        => i = j

\* a cart that passes the checks checkout_cart means to make before it
\* writes the order: it exists, is not empty, and every item names an existing
\* product with enough stock
CartCanCheckOut(c) ==
    /\ carts[c].live
    /\ CartItemsOf(c) # {}
    /\ \A i \in CartItemsOf(c) :
          /\ products[cartItems[i].product_id].live
          /\ products[cartItems[i].product_id].stock >= cartItems[i].quantity

\* C13: when the payment step of checkout_cart fails (provider not configured,
\* or the provider answers success = false), the order that checkout created
\* stays persisted with one item per cart item and with payment_status PENDING
\* or FAILED.
C13_OrderSurvivesPaymentFailure ==
    [][\A u \in UserIds, c \in CartIds, pay \in {"not_configured", "declined"},
          clear \in {"ok", "failed"} :
          (CartCanCheckOut(c) /\ CheckoutCart(u, c, pay, 1, 0, clear))
          => \E o \in OrderIds :
                /\ ~orders[o].live
                /\ orders'[o].live
                /\ orders'[o].payment_status \in {"pending", "failed"}
                /\ Cardinality({i \in OrderItemIds :
                                   orderItems'[i].live /\ orderItems'[i].order_id = o})
                     = Cardinality(CartItemsOf(c))]_vars

\* C14: checkout_cart removes cart items only after the order is committed:
\* a checkout_cart call (a step that records checkout_cart as the last call)
\* that changes the cart's items or its total_price has committed a new order,
\* so a checkout that fails before the order commit leaves the cart's items and
\* total_price unchanged.
C14_CartClearedOnlyAfterOrderCommit ==
    [][last'.op = "checkout_cart"
       => \/ \E o \in OrderIds : ~orders[o].live /\ orders'[o].live
          \/ UNCHANGED <<carts, cartItems>>]_vars

\* a checkout of a cart with items has failed before the order commit
C14_Witness ==
    /\ last.op = "checkout_cart"
    /\ last.res # "ok"
    /\ carts[last.id].live
    /\ CartItemsOf(last.id) # {}
    /\ \A o \in OrderIds : ~orders[o].live

\* C15: create_user with an already registered email returns a conflict and
\* writes nothing, and after any sequence of create_user and update_user calls
\* no two user records share an email.
C15_EmailsAreUnique ==
    /\ [](\A u, v \in UserIds :
             (users[u].live /\ users[v].live /\ users[u].email = users[v].email)
             => u = v)
    /\ [][\A email \in Emails, username \in Usernames, role \in UserRole :
             (EmailRegistered(email) /\ CreateUser(email, username, role))
             => (/\ last'.res = "conflict"
                 /\ UNCHANGED <<users, carts>>)]_vars

\* two accounts exist, and the last call was refused because its email was
\* taken
C15_Witness ==
    /\ \A u \in UserIds : users[u].live
    /\ last.op \in {"create_user", "update_user"}
    /\ last.res = "conflict"
    /\ last.detail = "email"

\* C16: a side effect that fails after the commit does not fail the call: a
\* checkout_cart whose cart clearing fails after order and payment are
\* committed still succeeds, and a create_order or update_order whose mail
\* fails still succeeds with its changes committed.
C16_SideEffectFailuresAreSwallowed ==
    [][/\ \A u \in UserIds, c \in CartIds :
             (CartCanCheckOut(c) /\ CheckoutCart(u, c, "ok", 1, 0, "failed"))
             => (/\ last'.res = "ok"
                 /\ \E o \in OrderIds : ~orders[o].live /\ orders'[o].live
                 /\ \E i \in PaymentIds : ~payments[i].live /\ payments'[i].live)
       /\ \A u \in UserIds, lines \in EffectLines :
             (/\ ValidateLines(products, lines, 1) = "ok"
              /\ CreateOrderNotify(u, lines, "failed"))
             => (/\ last'.res = "ok"
                 /\ \E o \in OrderIds : ~orders[o].live /\ orders'[o].live)
       /\ \A u \in UserIds, o \in OrderIds, upd \in EffectUpdates :
             (/\ orders[o].live
              /\ MayChangeOrder(u, o)
              /\ UpdateOrderNotify(u, o, upd, "failed"))
             => (/\ last'.res = "ok"
                 /\ upd.status # <<>> => orders'[o].status = upd.status[1]
                 /\ upd.payment_status # <<>>
                    => orders'[o].payment_status = upd.payment_status[1])]_vars

\* C17: checkout re-validates the current price: for each item of the cart,
\* checkout_cart writes an order item whose product_price is the product's
\* price at checkout time and whose subtotal is that price * quantity,
\* whatever subtotal_price the cart item cached when it was added.
C17_CheckoutUsesCurrentPrice ==
    [][\A u \in UserIds, c \in CartIds, clear \in {"ok", "failed"} :
          (/\ last'.op = "checkout_cart"
           /\ CartCanCheckOut(c)
           /\ CheckoutCart(u, c, "ok", 1, 0, clear))
          => \A i \in CartItemsOf(c) :
                \E j \in OrderItemIds :
                   /\ ~orderItems[j].live
                   /\ orderItems'[j].live
                   /\ orderItems'[j].product_id = cartItems[i].product_id
                   /\ orderItems'[j].quantity = cartItems[i].quantity
                   /\ orderItems'[j].product_price
                        = products[cartItems[i].product_id].price
                   /\ orderItems'[j].subtotal
                        = products[cartItems[i].product_id].price * cartItems[i].quantity]_vars

\* the sum of product_price * quantity over the order items S of the table tbl
RECURSIVE ItemsValue(_, _)
ItemsValue(tbl, S) ==
    IF S = {} THEN 0
    ELSE LET j == CHOOSE x \in S : TRUE
         IN tbl[j].product_price * tbl[j].quantity + ItemsValue(tbl, S \ {j})

\* C18: every order written by create_order or checkout_cart has, at creation,
\* subtotal = the sum of product_price * quantity over its order items and
\* total_amount = subtotal + tax_amount + shipping_cost, with tax 10% and
\* shipping 10.00 for create_order and the request's tax rate and shipping
\* cost for checkout_cart.
C18_TotalsAtCreation ==
    [][\A o \in OrderIds :
          (~orders[o].live /\ orders'[o].live)
          => (/\ orders'[o].subtotal
                   = ItemsValue(orderItems', {j \in OrderItemIds :
                                                 /\ orderItems'[j].live
                                                 /\ orderItems'[j].order_id = o})
              /\ orders'[o].total_amount
                   = orders'[o].subtotal + orders'[o].tax_amount + orders'[o].shipping_cost
              /\ last'.op \in {"create_order", "checkout_cart"}
              /\ last'.op = "create_order"
                 => (/\ orders'[o].tax_amount = orders'[o].subtotal \div TaxDivisor
                     /\ orders'[o].shipping_cost = ShippingCost)
              /\ last'.op = "checkout_cart"
                 => (/\ orders'[o].tax_amount = orders'[o].subtotal \div TaxDivisor
                     /\ orders'[o].shipping_cost = 0))]_vars

\* create_order has just written an order of two lines
C18_Witness ==
    /\ last.op = "create_order"
    /\ last.res = "ok"
    /\ orders[last.id].live
    /\ Cardinality(OrderItemsOf(last.id)) = 2
    /\ orders[last.id].subtotal > 0

\* C19: an order header and its line items are created in one transaction:
\* a step that commits an order header commits with it one order item per
\* requested line (per cart item, for checkout_cart), and a create_order that
\* fails while writing its lines, as when a product was deleted after the
\* validation, leaves no order header, no order item and no stock change.
C19_HeaderAndLinesTogether ==
    [][/\ \A o \in OrderIds :
             (~orders[o].live /\ orders'[o].live)
             => LET written == Cardinality({j \in OrderItemIds :
                                  /\ ~orderItems[j].live
                                  /\ orderItems'[j].live
                                  /\ orderItems'[j].order_id = o})
                IN \/ \E r \in Requests :
                         /\ reqs[r].pc = "validated"
                         /\ reqs'[r].pc = "done"
                         /\ reqs'[r].id = o
                         /\ written = Len(reqs[r].lines)
                   \/ /\ last'.op = "checkout_cart"
                      /\ written = Cardinality(CartItemsOf(last'.id))
                      /\ written > 0
       /\ \A r \in Requests :
             (reqs[r].pc = "validated" /\ reqs'[r].pc = "done" /\ reqs'[r].res # "ok")
             => UNCHANGED <<orders, orderItems, products>>]_vars

\* a create_order request has failed in its write loop, after its validation
\* passed, because its product was deleted in between
C19_Witness ==
    \E r \in Requests :
        /\ reqs[r].pc = "done"
        /\ reqs[r].res = "internal_error"
        /\ WriteLoopRaises(reqs[r].lines)
        /\ \A o \in OrderIds : orders[o].live => orders[o].user_id # reqs[r].caller

\* C20: every cart item has quantity >= 1, after any sequence of
\* add_item_to_cart and update_cart_item calls, an update_cart_item whose body
\* leaves quantity out included.
C20_QuantityAtLeastOne ==
    \A i \in CartItemIds : cartItems[i].live => cartItems[i].quantity >= 1

\* an update_cart_item without quantity has just failed on an existing item
C20_Witness ==
    /\ last.op = "update_cart_item"
    /\ last.res = "internal_error"
    /\ cartItems[last.id].live
    /\ cartItems[last.id].quantity >= 1

\* C21: users can only cancel their own orders: a cancel_order call by a
\* caller who is not the user the order belongs to is rejected as forbidden,
\* and the order status and every product's stock are unchanged.
C21_OnlyOwnerCancels ==
    [][\A u \in UserIds, o \in OrderIds :
          (/\ last'.op = "cancel_order"
           /\ orders[o].live
           /\ orders[o].user_id # u
           /\ CancelOrder(u, o))
          => (/\ last'.res = "forbidden"
              /\ UNCHANGED <<orders, products>>)]_vars

\* the units of product p that are in stock or in the order items of orders
\* that are not cancelled
StockAndOrdered(prods, ords, items, p) ==
    prods[p].stock
    + LET S == {j \in OrderItemIds : /\ items[j].live
                                      /\ items[j].product_id = p
                                      /\ ords[items[j].order_id].status # "cancelled"}
          sum[T \in SUBSET S] ==
              IF T = {} THEN 0
              ELSE LET j == CHOOSE x \in T : TRUE
                   IN items[j].quantity + sum[T \ {j}]
      IN sum[S]

\* C22: stock is conserved across the ordering paths: for every product, the
\* stock plus the quantity of the product in the order items of orders that
\* were never cancelled is the same before and after every create_order,
\* checkout_cart and cancel_order call.
C22_StockConserved ==
    [][\A p \in ProductIds :
          StockAndOrdered(products', orders', orderItems', p)
            = StockAndOrdered(products, orders, orderItems, p)]_vars

\* an order that took units of a product has been cancelled
C22_Witness ==
    /\ last.op = "cancel_order"
    /\ last.res = "ok"
    /\ orders[last.id].status = "cancelled"
    /\ \E p \in ProductIds : ItemsQty(OrderItemsOf(last.id), p) > 0

\* C23: the quantities of an order are added back to the stock at most once:
\* a cancel_order call that adds the quantities of an order back to the stock
\* is the first such call for that order, whatever update_order calls were
\* made on the order in between.
C23_RestoredAtMostOnce ==
    [][\A u \in UserIds, o \in OrderIds :
          (/\ last'.op = "cancel_order"
           /\ last'.res = "ok"
           /\ \E p \in ProductIds : ItemsQty(OrderItemsOf(o), p) > 0
           /\ CancelOrder(u, o))
          => o \notin last.restocked]_vars

\* the total amount of the successful refunds recorded for payment i
RefundedTotal(i) ==
    LET S == {r \in RefundIds : /\ refunds[r].live
                                /\ refunds[r].payment_id = i
                                /\ refunds[r].status = "completed"}
        sum[T \in SUBSET S] ==
            IF T = {} THEN 0
            ELSE LET r == CHOOSE x \in T : TRUE
                 IN refunds[r].amount + sum[T \ {r}]
    IN sum[S]

\* C24: the total amount of the successful refunds recorded for a payment
\* never exceeds the amount of that payment.
C24_RefundsWithinPayment ==
    \A i \in PaymentIds : payments[i].live => RefundedTotal(i) <= payments[i].amount

\* the payments made for order o
PaymentsOf(o) == {i \in PaymentIds : payments[i].live /\ payments[i].order_id = o}

\* C25: the order of a COMPLETED payment has payment_status PAID, and an
\* order whose only payment is FAILED does not have payment_status PAID.
C25_PaymentAndOrderAgree ==
    \A i \in PaymentIds :
        payments[i].live
        => /\ payments[i].status = "completed"
              => orders[payments[i].order_id].payment_status = "paid"
           /\ (payments[i].status = "failed" /\ PaymentsOf(payments[i].order_id) = {i})
              => orders[payments[i].order_id].payment_status # "paid"

\* user u, who is no admin, names cart c, which another user owns
ForeignCart(u, c) ==
    /\ carts[c].live
    /\ carts[c].user_id # u
    /\ users[u].role # "admin"

\* C26: add_item_to_cart, update_cart_item, remove_cart_item, delete_cart and
\* checkout_cart, called by a user who is no admin with the id of a cart that
\* another user owns, are refused and leave that cart and its items as they
\* were.
C26_OnlyOwnerChangesCart ==
    [][\A u \in UserIds, c \in CartIds :
          (/\ last'.op \in {"add_item_to_cart", "update_cart_item", "remove_cart_item",
                            "delete_cart", "checkout_cart"}
           /\ ForeignCart(u, c)
           /\ \/ \E p \in ProductIds, q \in BodyQuantities : AddItemToCart(u, c, p, q)
              \/ \E i \in CartItemIds, body \in [quantity : Opt(BodyQuantities)] :
                    UpdateCartItem(u, c, i, body)
              \/ \E i \in CartItemIds : RemoveCartItem(u, c, i)
              \/ DeleteCart(u, c)
              \/ \E pay \in {"ok", "not_configured", "declined"}, clear \in {"ok", "failed"} :
                    CheckoutCart(u, c, pay, 1, 0, clear))
          => (/\ last'.res # "ok"
              /\ carts'[c] = carts[c]
              /\ \A i \in CartItemIds :
                    (cartItems[i].cart_id = c \/ cartItems'[i].cart_id = c)
                    => cartItems'[i] = cartItems[i])]_vars

\* C27: after an update_user call made by a caller whose role is not ADMIN,
\* the role of the target user is what it was before the call.
C27_OnlyAdminChangesRole ==
    [][\A u \in UserIds, t \in UserIds :
          (/\ last'.op = "update_user"
           /\ users[u].role # "admin"
           /\ \E upd \in UserUpdates : UpdateUser(u, t, upd))
          => users'[t].role = users[t].role]_vars

\* verify_email accepts token k: the row exists, is not used and has not run out
Usable(k) == tokens[k].live /\ ~tokens[k].is_used /\ ~tokens[k].expired

UsableTokensOf(u) == {k \in TokenIds : Usable(k) /\ tokens[k].user_id = u}

\* C28: a verification token is used up by the verify_email call it makes
\* succeed and is never usable again; verify_email refuses a token that is
\* used; resend_verification_email leaves every earlier token of the user
\* used; and an unverified user has at most one usable token.
C28_TokensSingleUse ==
    /\ [](\A u \in UserIds :
            (users[u].live /\ ~users[u].is_verified)
            => Cardinality(UsableTokensOf(u)) <= 1)
    /\ [][/\ \A k \in TokenIds :
               /\ (tokens[k].live /\ tokens[k].is_used) => tokens'[k].is_used
               /\ (last'.op = "verify_email" /\ VerifyEmail(k))
                  => IF last'.res = "ok"
                     THEN Usable(k) /\ tokens'[k].is_used
                     ELSE UNCHANGED <<users, tokens>>
               /\ (last'.op = "verify_email" /\ VerifyEmail(k) /\ ~Usable(k))
                  => last'.res # "ok"
          /\ (/\ last'.op = "resend_verification_email"
              /\ last'.res \in {"ok", "internal_error"}
              /\ \E email \in Emails, mail \in {"sent", "failed"} :
                    ResendVerificationEmail(email, mail))
             => \A k \in TokenIds :
                   (tokens[k].live /\ tokens[k].user_id = last'.id) => tokens'[k].is_used]_vars

\* verify_email has refused a token that a resend superseded, while the
\* user, still unverified, holds the token that replaced it
C28_Witness ==
    /\ last.op = "verify_email"
    /\ last.res = "bad_request"
    /\ last.detail = "used"
    /\ ~users[tokens[last.id].user_id].is_verified
    /\ \E k \in UsableTokensOf(tokens[last.id].user_id) : k # last.id

\* the saved payment methods of user u with is_default set
DefaultsOf(u) ==
    {m \in MethodIds : methods[m].live /\ methods[m].user_id = u /\ methods[m].is_default}

\* C29: each user has at most one saved payment method with is_default set.
C29_AtMostOneDefault == \A u \in UserIds : Cardinality(DefaultsOf(u)) <= 1

\* a user with more than one saved method has made one of them the default
C29_Witness ==
    /\ last.op \in {"create_payment_method", "update_payment_method"}
    /\ last.id \in MethodIds
    /\ methods[last.id].live
    /\ methods[last.id].is_default
    /\ \E m \in MethodIds \ {last.id} :
          /\ methods[m].live
          /\ methods[m].user_id = methods[last.id].user_id
          /\ ~methods[m].is_default

====
